---- MODULE Spec2Model ----
\* Sector aggregation and differencing pipeline of data_processing/aggregation.py.
\*
\* Arrays are records [shape |-> <<n_0, ..., n_{r-1}>>, data |-> f] where f maps
\* every index tuple (a sequence of 0-based positions, one per axis) to a value.
\* Floating point values are modelled as exact rationals <<num, den>> in lowest
\* terms with den > 0.  Axis numbers are 0-based as in the source; a TLA+
\* sequence is 1-based, so axis a of a shape is shape[a + 1].
EXTENDS Integers, Sequences, FiniteSets, TLC

VARIABLES
    inArray,        \* aggregateSectorNace62ToNace1: the array passed in
    cat,            \* the catalogue passed in: [nace1 |-> codes, nace62 |-> codes]
    aggOut,         \* outcome of the direct call (NotCalled before it)
    legacyOut,      \* outcome of the call of the legacy script's function
    base,           \* calculate_means_and_differences: baseline dataset (key -> array)
    scenarios,      \* sequence of scenario datasets
    extended_things,\* the tracked keys, extended by the derived ones
    scenarios_rel,  \* per scenario: key -> scenario / base
    scenarios_dif,  \* per scenario: key -> scenario - base
    scenarios_dif_rel, \* per scenario: key -> (scenario - base) / base
    pc,             \* position inside calculate_means_and_differences
    warnings,       \* keys named by the diagnostics printed so far
    entry,          \* the datasets as they were when the current call began
    run             \* number of the current call on these datasets (0: none)

vars == <<inArray, cat, aggOut, legacyOut, base, scenarios, extended_things,
          scenarios_rel, scenarios_dif, scenarios_dif_rel, pc, warnings, entry, run>>

aggVars == <<inArray, cat, aggOut, legacyOut>>

pipeVars == <<base, scenarios, extended_things, scenarios_rel, scenarios_dif,
              scenarios_dif_rel, pc, warnings, entry, run>>

\* ---------------------------------------------------------------- bounds

\* Largest axis length of an input array of the direct call, for the ranks up
\* to 4 and for rank 5.
MaxAxisLen == 5

MaxWideLen == 3

\* Ranks of the input arrays of the direct call.
Ranks == 1..5

\* ---------------------------------------------------------------- rationals

Abs(n) == IF n < 0 THEN -n ELSE n

RECURSIVE GCD(_, _)
GCD(a, b) == IF b = 0 THEN a ELSE GCD(b, a % b)

\* The rational n / d (d # 0) in lowest terms, denominator positive.
Rat(n, d) ==
    LET g == GCD(Abs(n), Abs(d))
    IN  IF d < 0 THEN <<(-n) \div g, (-d) \div g>> ELSE <<n \div g, d \div g>>

R(n) == <<n, 1>>

Zero == R(0)

One == R(1)

RAdd(x, y) ==
    IF x[2] = 1 /\ y[2] = 1 THEN <<x[1] + y[1], 1>>
    ELSE Rat(x[1] * y[2] + y[1] * x[2], x[2] * y[2])

RSub(x, y) ==
    IF x[2] = 1 /\ y[2] = 1 THEN <<x[1] - y[1], 1>>
    ELSE Rat(x[1] * y[2] - y[1] * x[2], x[2] * y[2])

\* x / y for y # 0.
RDiv(x, y) == Rat(x[1] * y[2], x[2] * y[1])

\* Sum of the values of a function.
RECURSIVE SumFn(_)
SumFn(f) ==
    IF DOMAIN f = {} THEN Zero
    ELSE LET x == CHOOSE x \in DOMAIN f : TRUE
         IN  RAdd(f[x], SumFn([y \in DOMAIN f \ {x} |-> f[y]]))

\* ---------------------------------------------------------------- arrays

Range(s) == {s[i] : i \in 1..Len(s)}

\* Every index tuple of an array of the given shape.
RECURSIVE Indices(_)
Indices(shape) ==
    IF shape = <<>> THEN {<<>>}
    ELSE LET n == Len(shape)
         IN  {Append(front, i) : front \in Indices(SubSeq(shape, 1, n - 1)),
                                 i \in 0..(shape[n] - 1)}

\* Position of idx in the row-major (C order) flattening of the array.
RECURSIVE Flat(_, _)
Flat(idx, shape) ==
    IF idx = <<>> THEN 0
    ELSE LET n == Len(idx)
         IN  Flat(SubSeq(idx, 1, n - 1), SubSeq(shape, 1, n - 1)) * shape[n] + idx[n]

\* The array k + w * arange(size).reshape(shape).
Ramp(shape, k, w) ==
    [shape |-> shape,
     data  |-> [idx \in Indices(shape) |-> R(k + w * Flat(idx, shape))]]

\* ---------------------------------------------------------------- catalogue

\* Sector codes are sequences of characters.  The catalogue of constants.py is
\* cut down to a few codes of each kind; this is the only place that fixes it.
time_steps == <<"Quarter 0", "Quarter 1">>

experiments == <<"E0", "E1", "E2", "E3">>

country_codes == <<"AT", "BE">>

A01 == <<"A", "0", "1">>

A02 == <<"A", "0", "2">>

C16 == <<"C", "1", "6">>

\* Coarse codes A, B, C; every fine code has exactly one coarse prefix.
CatPartition == [nace1 |-> << <<"A">>, <<"B">>, <<"C">> >>,
                 nace62 |-> <<A01, A02, <<"B">> >>]

\* As CatPartition, with fine codes of all three coarse sectors out of order.
CatMixed == [nace1 |-> << <<"A">>, <<"B">>, <<"C">> >>,
             nace62 |-> <<C16, A01, <<"B">> >>]

\* Fine code C16 has no coarse prefix.
CatOrphan == [nace1 |-> << <<"A">>, <<"B">>, <<"D">> >>,
              nace62 |-> <<A01, <<"B">>, C16>>]

\* Fine code A01 has two coarse prefixes, A and A0.
CatOverlap == [nace1 |-> << <<"A">>, <<"A", "0">>, <<"B">> >>,
               nace62 |-> <<A01, A02, <<"B">> >>]

\* Two coarse codes for three fine codes.
CatFew == [nace1 |-> << <<"A">>, <<"B">> >>,
           nace62 |-> <<A01, A02, <<"B">> >>]

\* The catalogue of constants.py in full: 19 coarse and 62 fine codes.
CatConstants ==
    [nace1 |->
       << <<"A">>, <<"B">>, <<"C">>, <<"D">>, <<"E">>, <<"F">>, <<"G">>, <<"H">>, <<"I">>,
          <<"J">>, <<"K">>, <<"L">>, <<"M">>, <<"N">>, <<"O">>, <<"P">>, <<"Q">>, <<"R">>,
          <<"S">> >>,
     nace62 |->
       << <<"A", "0", "1">>, <<"A", "0", "2">>, <<"A", "0", "3">>, <<"B">>,
          <<"C", "1", "0", "-", "C", "1", "2">>, <<"C", "1", "3", "-", "C", "1", "5">>,
          <<"C", "1", "6">>, <<"C", "1", "7">>, <<"C", "1", "8">>, <<"C", "1", "9">>,
          <<"C", "2", "0">>, <<"C", "2", "1">>, <<"C", "2", "2">>, <<"C", "2", "3">>,
          <<"C", "2", "4">>, <<"C", "2", "5">>, <<"C", "2", "6">>, <<"C", "2", "7">>,
          <<"C", "2", "8">>, <<"C", "2", "9">>, <<"C", "3", "0">>,
          <<"C", "3", "1", "_", "C", "3", "2">>, <<"C", "3", "3">>, <<"D">>,
          <<"E", "3", "6">>, <<"E", "3", "7", "-", "E", "3", "9">>, <<"F">>,
          <<"G", "4", "5">>, <<"G", "4", "6">>, <<"G", "4", "7">>, <<"H", "4", "9">>,
          <<"H", "5", "0">>, <<"H", "5", "1">>, <<"H", "5", "2">>, <<"H", "5", "3">>,
          <<"I">>, <<"J", "5", "8">>, <<"J", "5", "9", "_", "J", "6", "0">>,
          <<"J", "6", "1">>, <<"J", "6", "2", "_", "J", "6", "3">>, <<"K", "6", "4">>,
          <<"K", "6", "5">>, <<"K", "6", "6">>, <<"L">>,
          <<"M", "6", "9", "_", "M", "7", "0">>, <<"M", "7", "1">>, <<"M", "7", "2">>,
          <<"M", "7", "3">>, <<"M", "7", "4", "_", "M", "7", "5">>, <<"N", "7", "7">>,
          <<"N", "7", "8">>, <<"N", "7", "9">>, <<"N", "8", "0", "-", "N", "8", "2">>,
          <<"O">>, <<"P">>, <<"Q", "8", "6">>, <<"Q", "8", "7", "_", "Q", "8", "8">>,
          <<"R", "9", "0", "-", "R", "9", "2">>, <<"R", "9", "3">>, <<"S", "9", "4">>,
          <<"S", "9", "5">>, <<"S", "9", "6">> >>]

Catalogues == {CatPartition, CatMixed, CatOrphan, CatOverlap, CatFew, CatConstants}

\* Variant of StartsWith: the code is the prefix.
StartsWith_Equal(s, prefix) == s = prefix

\* str.startswith
StartsWith(s, prefix) ==
    /\ Len(prefix) <= Len(s)
    /\ SubSeq(s, 1, Len(prefix)) = prefix

\* Every fine code has exactly one coarse code as prefix.
WellFormed(c) ==
    \A i \in 1..Len(c.nace62) :
        Cardinality({s \in 1..Len(c.nace1) : StartsWith(c.nace62[i], c.nace1[s])}) = 1

\* ---------------------------------------------------------------- Python lists

\* seq[i] of a Python list of length n is defined for -n <= i < n ...
PyInRange(i, n) == -n <= i /\ i < n

\* ... and a negative i counts from the end.
PyWrap(i, n) == IF i < 0 THEN i + n ELSE i

\* ---------------------------------------------------------------- aggregation

\* The 0-based positions of the fine codes that start with nace1_code, ascending.
RECURSIVE MatchFrom(_, _, _)
MatchFrom(i, nace1_code, sectors_nace_62_tuple) ==
    IF i > Len(sectors_nace_62_tuple) THEN <<>>
    ELSE IF StartsWith(sectors_nace_62_tuple[i], nace1_code)
         THEN <<i - 1>> \o MatchFrom(i + 1, nace1_code, sectors_nace_62_tuple)
         ELSE MatchFrom(i + 1, nace1_code, sectors_nace_62_tuple)

get_sector_mappings(sector_index, nace1_code, sectors_nace_62_tuple) ==
    MatchFrom(1, nace1_code, sectors_nace_62_tuple)

\* The loop of find_dimension_index from axis i (0-based) on.
RECURSIVE FindFrom(_, _, _)
FindFrom(shape, target_length, i) ==
    IF i >= Len(shape) THEN -1
    ELSE IF shape[i + 1] = target_length THEN i
    ELSE FindFrom(shape, target_length, i + 1)

\* Variant of find_dimension_index: the loop does not stop at the first match.
RECURSIVE FindLastFrom(_, _, _)
FindLastFrom(shape, target_length, i) ==
    IF i < 0 THEN -1
    ELSE IF shape[i + 1] = target_length THEN i
    ELSE FindLastFrom(shape, target_length, i - 1)

find_dimension_index_Last(shape, target_length) ==
    FindLastFrom(shape, target_length, Len(shape) - 1)

find_dimension_index(shape, target_length) == FindFrom(shape, target_length, 0)

NoArray == [shape |-> <<>>, data |-> <<>>]

NoDims == [d \in {} |-> 0]

\* Outcome of a call: the exception raised ("none": it returned arr), whether the
\* sector-axis warning was printed, and the axis locals assigned before the end.
Raised(e, w, dims) ==
    [exc |-> e, warned |-> w, arr |-> NoArray, dims |-> dims, written |-> {}]

\* written: the output indices the loops assigned.
Returned(a, w, dims, written) ==
    [exc |-> "none", warned |-> w, arr |-> a, dims |-> dims, written |-> written]

\* Variant of SectorAxis: the best guess is axis 0.
SectorAxis_GuessFirst(shape, sectors_nace_62) ==
    LET found == find_dimension_index(shape, Len(sectors_nace_62))
    IN  IF found # -1 THEN [dim |-> found, warned |-> FALSE]
        ELSE IF Len(shape) \in {3, 4} THEN [dim |-> 0, warned |-> TRUE]
        ELSE [dim |-> -1, warned |-> TRUE]

\* The sector axis and whether it was found by length; [dim |-> -1] when the
\* rank gives no best guess (the ValueError of the source).
SectorAxis(shape, sectors_nace_62) ==
    LET found == find_dimension_index(shape, Len(sectors_nace_62))
    IN  IF found # -1 THEN [dim |-> found, warned |-> FALSE]
        ELSE IF Len(shape) = 3 THEN [dim |-> 2, warned |-> TRUE]
        ELSE IF Len(shape) = 4 THEN [dim |-> 3, warned |-> TRUE]
        ELSE [dim |-> -1, warned |-> TRUE]

\* Variant of AxisOrDefault: the default is axis 0 for every axis.
AxisOrDefault_Zero(shape, target_length, default) ==
    LET found == find_dimension_index(shape, target_length)
    IN  IF found = -1 THEN 0 ELSE found

\* timeDim / expDim: found by length, else the positional default.
AxisOrDefault(shape, target_length, default) ==
    LET found == find_dimension_index(shape, target_length)
    IN  IF found = -1 THEN default ELSE found

\* countryDim of the 4-axis branch.
CountryDim4(sectorDim, timeDim, expDim) == 3 - sectorDim - timeDim - expDim

\* Variant of CountryDim3: the axis numbers taken to sum to 2.
CountryDim3_OffByOne(sectorDim, timeDim) == 2 - sectorDim - timeDim

\* countryDim of the other branch.
CountryDim3(sectorDim, timeDim) == 3 - sectorDim - timeDim

\* The fill value of the freshly created output array (np.ones).
AggFill == One

\* sum_val of one output element: the input summed over the matched positions,
\* the index being j with its sector position replaced.
RECURSIVE SumMatched(_, _, _, _)
SumMatched(data, j, sectorDim, matched) ==
    IF matched = <<>> THEN Zero
    ELSE RAdd(data[[j EXCEPT ![sectorDim + 1] = Head(matched)]],
              SumMatched(data, j, sectorDim, Tail(matched)))

\* The nested loops.  Built is the set of index lists idx (of length K) as they
\* stand after the loop variables were stored and before the sector position is;
\* every one of them is read at each matched position and written at each s.
\* An index outside the array raises IndexError and the output is lost.
AggLoops(arr, new_shape, K, Built, sectorDim, mapping, warned, dims) ==
    LET shape == arr.shape
        InBounds(idx, shp) == \A k \in 1..K : idx[k] < shp[k]
        bad == \E b \in Built : \E s \in 1..Len(mapping) :
                  \/ ~InBounds([b EXCEPT ![sectorDim + 1] = s - 1], new_shape)
                  \/ \E sec \in Range(mapping[s]) :
                        ~InBounds([b EXCEPT ![sectorDim + 1] = sec], shape)
        Written == {[b EXCEPT ![sectorDim + 1] = 0] : b \in Built}
        Lead(j) == [k \in 1..K |-> IF k = sectorDim + 1 THEN 0 ELSE j[k]]
        written == {j \in Indices(new_shape) : Lead(j) \in Written}
    IN  IF bad THEN Raised("IndexError", warned, dims)
        ELSE Returned(
               [shape |-> new_shape,
                data  |-> [j \in Indices(new_shape) |->
                             IF j \in written
                             THEN SumMatched(arr.data, j, sectorDim,
                                             mapping[j[sectorDim + 1] + 1])
                             ELSE AggFill]],
               warned, dims, written)

\* The branch for 4-axis arrays.
Aggregate4(arr, new_shape, sectorDim, mapping, warned) ==
    LET shape == arr.shape
        timeDim == AxisOrDefault(shape, Len(time_steps), 0)
        expDim == AxisOrDefault(shape, Len(experiments), 1)
        countryDim == CountryDim4(sectorDim, timeDim, expDim)
        dims == [d \in {"sector", "time", "exp", "country"} |->
                    IF d = "sector" THEN sectorDim
                    ELSE IF d = "time" THEN timeDim
                    ELSE IF d = "exp" THEN expDim ELSE countryDim]
    IN  IF ~PyInRange(countryDim, 4) THEN Raised("IndexError", warned, dims)
        ELSE LET cd == PyWrap(countryDim, 4)
                 Built == {[[[[k \in 1..4 |-> 0]
                                EXCEPT ![timeDim + 1] = t]
                                EXCEPT ![expDim + 1] = e]
                                EXCEPT ![cd + 1] = c] :
                             t \in 0..(shape[timeDim + 1] - 1),
                             e \in 0..(shape[expDim + 1] - 1),
                             c \in 0..(shape[cd + 1] - 1)}
             IN  AggLoops(arr, new_shape, 4, Built, sectorDim, mapping, warned, dims)

\* The branch for every other rank (written for 3-axis arrays): idx has three
\* positions, and shape[countryDim] and idx[countryDim] wrap separately.
Aggregate3(arr, new_shape, sectorDim, mapping, warned) ==
    LET shape == arr.shape
        r == Len(shape)
        timeDim == AxisOrDefault(shape, Len(time_steps), 0)
        countryDim == CountryDim3(sectorDim, timeDim)
        dims == [d \in {"sector", "time", "country"} |->
                    IF d = "sector" THEN sectorDim
                    ELSE IF d = "time" THEN timeDim ELSE countryDim]
    IN  IF \/ ~PyInRange(countryDim, r)
           \/ ~PyInRange(countryDim, 3)
           \/ timeDim >= 3
           \/ sectorDim >= 3
           \/ r < 3
        THEN Raised("IndexError", warned, dims)
        ELSE LET cs == PyWrap(countryDim, r)
                 ci == PyWrap(countryDim, 3)
                 Built == {[[[k \in 1..3 |-> 0]
                                EXCEPT ![timeDim + 1] = t]
                                EXCEPT ![ci + 1] = c] :
                             t \in 0..(shape[timeDim + 1] - 1),
                             c \in 0..(shape[cs + 1] - 1)}
             IN  AggLoops(arr, new_shape, 3, Built, sectorDim, mapping, warned, dims)

\* new_shape: the input shape with the sector axis as long as the coarse list.
NewShape(shape, sectorDim, sectors_nace_1) ==
    [shape EXCEPT ![sectorDim + 1] = Len(sectors_nace_1)]

aggregateSectorNace62ToNace1(arr, sectors_nace_1, sectors_nace_62) ==
    LET shape == arr.shape
        sa == SectorAxis(shape, sectors_nace_62)
        sectorDim == sa.dim
    IN  IF sectorDim = -1 THEN Raised("ValueError", sa.warned, NoDims)
        ELSE LET new_shape == NewShape(shape, sectorDim, sectors_nace_1)
                 mapping == [s \in 1..Len(sectors_nace_1) |->
                               get_sector_mappings(s - 1, sectors_nace_1[s],
                                                   sectors_nace_62)]
             IN  IF Len(shape) = 4
                 THEN Aggregate4(arr, new_shape, sectorDim, mapping, sa.warned)
                 ELSE Aggregate3(arr, new_shape, sectorDim, mapping, sa.warned)

\* ---------------------------------------------------------------- legacy script

\* Outcome of a call of the legacy function: the exception raised ("none": it
\* returned arr).
LegacyNotCalled == [exc |-> "not called", arr |-> NoArray]

LegacyRaised(e) == [exc |-> e, arr |-> NoArray]

\* shape.index(len(sectors_nace_62)): the first axis of that length, -1 for the
\* ValueError of list.index.
LegacyIndex(shape, n) == FindFrom(shape, n, 0)

\* The axis the slices are taken on: 3 for four axes, 2 otherwise, whatever
\* sectorDim is.
LegacySumAxis(shape, sectorDim) == IF Len(shape) = 4 THEN 3 ELSE 2

\* The legacy aggregateSectorNace62ToNace1.  aggArray[..., s_idx] =
\* inArray[..., matched_idcs].sum(axis) runs for s_idx = 0, 1, ...: the right
\* side raises IndexError for a rank below the number of indices or a matched
\* position off the axis, the left side IndexError for s_idx off the axis, and
\* the assignment ValueError when the sum cannot be broadcast (an axis of the
\* sum is neither as long as the output's nor 1).
LegacyAggregate(arr, sectors_nace_1, sectors_nace_62) ==
    LET inShape == arr.shape
        r == Len(inShape)
        sectorDim == LegacyIndex(inShape, Len(sectors_nace_62))
    IN  IF sectorDim = -1 THEN LegacyRaised("ValueError")
        ELSE
          LET shape == [inShape EXCEPT ![sectorDim + 1] = Len(sectors_nace_1)]
              sector_mapping == [s \in 1..Len(sectors_nace_1) |->
                                   MatchFrom(1, sectors_nace_1[s], sectors_nace_62)]
              L == LegacySumAxis(inShape, sectorDim)
              BadIndex(s) ==
                  \/ \E sec \in Range(sector_mapping[s]) : sec >= inShape[L + 1]
                  \/ s - 1 >= shape[L + 1]
              Broadcasts ==
                  \A k \in 1..r : k # L + 1 => inShape[k] \in {shape[k], 1}
              From(j, sec) ==
                  [k \in 1..r |-> IF k = L + 1 THEN sec
                                  ELSE IF inShape[k] = 1 THEN 0 ELSE j[k]]
          IN  IF sectors_nace_1 = <<>>
              THEN [exc |-> "none",
                    arr |-> [shape |-> shape, data |-> [j \in Indices(shape) |-> Zero]]]
              ELSE IF r <= L THEN LegacyRaised("IndexError")
              ELSE IF BadIndex(1) THEN LegacyRaised("IndexError")
              ELSE IF ~Broadcasts THEN LegacyRaised("ValueError")
              ELSE IF \E s \in 1..Len(sectors_nace_1) : BadIndex(s)
                   THEN LegacyRaised("IndexError")
              ELSE [exc |-> "none",
                    arr |-> [shape |-> shape,
                             data  |-> [j \in Indices(shape) |->
                                          IF j[L + 1] < Len(sectors_nace_1)
                                          THEN SumFn([n \in 1..Len(sector_mapping[j[L + 1] + 1])
                                                        |-> arr.data[From(j,
                                                               sector_mapping[j[L + 1] + 1][n])]])
                                          ELSE Zero]]]

\* ---------------------------------------------------------------- direct call

NotCalled ==
    [exc |-> "not called", warned |-> FALSE, arr |-> NoArray, dims |-> NoDims,
     written |-> {}]

Shapes ==
    UNION {[1..r -> 1..(IF r <= 4 THEN MaxAxisLen ELSE MaxWideLen)] : r \in Ranks}

\* Offsets and steps of the input ramps.
RampOffsets == {0, 1}

RampSteps == {0, 1}

PipeIdle ==
    /\ base = <<>>
    /\ scenarios = <<>>
    /\ extended_things = <<>>
    /\ scenarios_rel = <<>>
    /\ scenarios_dif = <<>>
    /\ scenarios_dif_rel = <<>>
    /\ pc = "idle"
    /\ warnings = {}
    /\ entry = [base |-> <<>>, scenarios |-> <<>>]
    /\ run = 0

InitAgg ==
    /\ \E shape \in Shapes, k \in RampOffsets, w \in RampSteps :
          inArray = Ramp(shape, k, w)
    /\ cat \in Catalogues
    /\ aggOut = NotCalled
    /\ legacyOut = LegacyNotCalled
    /\ PipeIdle

\* aggOut = aggregateSectorNace62ToNace1(inArray, sectors_nace_1, sectors_nace_62, time_steps)
CallAggregate ==
    /\ aggOut.exc = "not called"
    /\ aggOut' = aggregateSectorNace62ToNace1(inArray, cat.nace1, cat.nace62)
    /\ UNCHANGED <<inArray, cat, legacyOut>>
    /\ UNCHANGED pipeVars

\* legacyOut = aggregateSectorNace62ToNace1(inArray) of the legacy script
CallLegacy ==
    /\ legacyOut.exc = "not called"
    /\ legacyOut' = LegacyAggregate(inArray, cat.nace1, cat.nace62)
    /\ UNCHANGED <<inArray, cat, aggOut>>
    /\ UNCHANGED pipeVars

NextAgg ==
    \/ CallAggregate
    \/ CallLegacy

SpecAgg == InitAgg /\ [][NextAgg]_vars

\* ---------------------------------------------------------------- datasets

\* A variable name is the sequence of its words: real_sector_output is
\* <<"real", "sector", "output">>, and key + "_mean" appends the word "mean".
\* The tracked list of constants.py cut down to one variable without a sector
\* axis and one with.
thingsWeCareAbout == << <<"real", "output">>, <<"real", "sector", "output">> >>

\* Variant of KeyMean: the mean is stored under the key itself.
KeyMean_InPlace(key) == key

\* key + "_mean"
KeyMean(key) == Append(key, "mean")

\* Variant of KeyNace1: the aggregate is stored under the key itself.
KeyNace1_InPlace(key) == key

\* key + "_nace1"
KeyNace1(key) == Append(key, "nace1")

\* 'sector' in key
HasSector(key) == \E i \in 1..Len(key) : key[i] = "sector"

\* d[key] = v
Put(d, key, v) == [k \in DOMAIN d \cup {key} |-> IF k = key THEN v ELSE d[k]]

ndim(arr) == Len(arr.shape)

\* Variant of MeanAxis1: the sum over axis 1, not divided by its length.
MeanAxis1_Sum(arr) ==
    LET n == arr.shape[2]
        new_shape == <<arr.shape[1]>> \o SubSeq(arr.shape, 3, Len(arr.shape))
        Full(j, i) == <<j[1], i>> \o SubSeq(j, 2, Len(j))
    IN  [shape |-> new_shape,
         data  |-> [j \in Indices(new_shape) |->
                      SumFn([i \in 0..(n - 1) |-> arr.data[Full(j, i)]])]]

\* Variant of MeanAxis1: the mean over axis 0.
MeanAxis1_Axis0(arr) ==
    LET n == arr.shape[1]
        new_shape == Tail(arr.shape)
    IN  [shape |-> new_shape,
         data  |-> [j \in Indices(new_shape) |->
                      RDiv(SumFn([i \in 0..(n - 1) |-> arr.data[<<i>> \o j]]), R(n))]]

\* np.mean(arr, axis=1) of an array with at least 2 axes.
MeanAxis1(arr) ==
    LET n == arr.shape[2]
        new_shape == <<arr.shape[1]>> \o SubSeq(arr.shape, 3, Len(arr.shape))
        Full(j, i) == <<j[1], i>> \o SubSeq(j, 2, Len(j))
    IN  [shape |-> new_shape,
         data  |-> [j \in Indices(new_shape) |->
                      RDiv(SumFn([i \in 0..(n - 1) |-> arr.data[Full(j, i)]]), R(n))]]

\* ---------------------------------------------------------------- calculate_means_and_differences

\* Lines 173-175: the means of one key in the scenarios from number s on.  The
\* mean of an array with fewer than 2 axes raises (numpy's AxisError) and leaves
\* the datasets as they are at that point.
RECURSIVE MeansOfScenarios(_, _, _)
MeansOfScenarios(scs, key, s) ==
    IF s > Len(scs) THEN [scenarios |-> scs, exc |-> "none"]
    ELSE IF key \notin DOMAIN scs[s] THEN MeansOfScenarios(scs, key, s + 1)
    ELSE IF ndim(scs[s][key]) < 2 THEN [scenarios |-> scs, exc |-> "AxisError"]
    ELSE MeansOfScenarios(
            [scs EXCEPT ![s] = Put(scs[s], KeyMean(key), MeanAxis1(scs[s][key]))],
            key, s + 1)

\* Lines 167-175, from tracked key number i on.
RECURSIVE MeansOfKeys(_, _, _)
MeansOfKeys(b, scs, i) ==
    IF i > Len(thingsWeCareAbout) THEN [base |-> b, scenarios |-> scs, exc |-> "none"]
    ELSE LET key == thingsWeCareAbout[i]
         IN  IF key \in DOMAIN b /\ ndim(b[key]) >= 2
             THEN LET b2 == Put(b, KeyMean(key), MeanAxis1(b[key]))
                      r == MeansOfScenarios(scs, key, 1)
                  IN  IF r.exc # "none"
                      THEN [base |-> b2, scenarios |-> r.scenarios, exc |-> r.exc]
                      ELSE MeansOfKeys(b2, r.scenarios, i + 1)
             ELSE MeansOfKeys(b, scs, i + 1)

\* Lines 166-175.
ComputeMeans ==
    /\ pc = "means"
    /\ LET r == MeansOfKeys(base, scenarios, 1)
       IN  /\ base' = r.base
           /\ scenarios' = r.scenarios
           /\ pc' = IF r.exc = "none" THEN "extend" ELSE "raised"
    /\ UNCHANGED <<extended_things, scenarios_rel, scenarios_dif, scenarios_dif_rel,
                   warnings, entry, run>>
    /\ UNCHANGED aggVars

\* Variant of ExtendThings: the _mean names are not appended.
ExtendThings_NoMeans ==
    /\ pc = "extend"
    /\ extended_things' = thingsWeCareAbout
    /\ pc' = "aggregate"
    /\ UNCHANGED <<base, scenarios, scenarios_rel, scenarios_dif, scenarios_dif_rel,
                   warnings, entry, run>>
    /\ UNCHANGED aggVars

\* Lines 177-181.
ExtendThings ==
    /\ pc = "extend"
    /\ extended_things' =
          thingsWeCareAbout \o
          SelectSeq([i \in 1..Len(thingsWeCareAbout) |-> KeyMean(thingsWeCareAbout[i])],
                    LAMBDA k : k \in DOMAIN base)
    /\ pc' = "aggregate"
    /\ UNCHANGED <<base, scenarios, scenarios_rel, scenarios_dif, scenarios_dif_rel,
                   warnings, entry, run>>
    /\ UNCHANGED aggVars

\* Lines 192-196: the aggregation of one key in the scenarios from number s on;
\* an exception ends the loop.
RECURSIVE AggregateScenarios(_, _, _)
AggregateScenarios(scs, key, s) ==
    IF s > Len(scs) THEN [scenarios |-> scs, exc |-> "none"]
    ELSE IF key \notin DOMAIN scs[s] THEN AggregateScenarios(scs, key, s + 1)
    ELSE LET out == aggregateSectorNace62ToNace1(scs[s][key], cat.nace1, cat.nace62)
         IN  IF out.exc # "none" THEN [scenarios |-> scs, exc |-> out.exc]
             ELSE AggregateScenarios(
                     [scs EXCEPT ![s] = Put(scs[s], KeyNace1(key), out.arr)],
                     key, s + 1)

\* Variant of AggregateKeys: one try around the whole loop, so that the first
\* failure ends the aggregation of every later key.
RECURSIVE AggregateKeys_OneTry(_, _, _, _, _, _)
AggregateKeys_OneTry(b, scs, things, w, keys, i) ==
    IF i > Len(keys)
    THEN [base |-> b, scenarios |-> scs, extended_things |-> things, warnings |-> w]
    ELSE LET key == keys[i]
             failed(b2, scs2, things2) ==
                 [base |-> b2, scenarios |-> scs2, extended_things |-> things2,
                  warnings |-> w \cup {<<"aggregate", key>>}]
         IN  IF HasSector(key) /\ key \in DOMAIN b
             THEN LET out == aggregateSectorNace62ToNace1(b[key], cat.nace1, cat.nace62)
                  IN  IF out.exc # "none" THEN failed(b, scs, things)
                      ELSE LET b2 == Put(b, KeyNace1(key), out.arr)
                               things2 == Append(things, KeyNace1(key))
                               r == AggregateScenarios(scs, key, 1)
                           IN  IF r.exc # "none" THEN failed(b2, r.scenarios, things2)
                               ELSE AggregateKeys_OneTry(b2, r.scenarios, things2, w,
                                                         keys, i + 1)
             ELSE AggregateKeys_OneTry(b, scs, things, w, keys, i + 1)

\* Lines 184-199, from number i of the copy of extended_things on.
RECURSIVE AggregateKeys(_, _, _, _, _, _)
AggregateKeys(b, scs, things, w, keys, i) ==
    IF i > Len(keys)
    THEN [base |-> b, scenarios |-> scs, extended_things |-> things, warnings |-> w]
    ELSE LET key == keys[i]
         IN  IF HasSector(key) /\ key \in DOMAIN b
             THEN LET out == aggregateSectorNace62ToNace1(b[key], cat.nace1, cat.nace62)
                  IN  IF out.exc # "none"
                      THEN AggregateKeys(b, scs, things,
                                         w \cup {<<"aggregate", key>>}, keys, i + 1)
                      ELSE LET b2 == Put(b, KeyNace1(key), out.arr)
                               things2 == Append(things, KeyNace1(key))
                               r == AggregateScenarios(scs, key, 1)
                           IN  AggregateKeys(b2, r.scenarios, things2,
                                             IF r.exc # "none"
                                             THEN w \cup {<<"aggregate", key>>} ELSE w,
                                             keys, i + 1)
             ELSE AggregateKeys(b, scs, things, w, keys, i + 1)

\* Lines 183-199.
AggregateSectors ==
    /\ pc = "aggregate"
    /\ LET r == AggregateKeys(base, scenarios, extended_things, warnings,
                              extended_things, 1)
       IN  /\ base' = r.base
           /\ scenarios' = r.scenarios
           /\ extended_things' = r.extended_things
           /\ warnings' = r.warnings
    /\ pc' = "compare"
    /\ UNCHANGED <<scenarios_rel, scenarios_dif, scenarios_dif_rel, entry, run>>
    /\ UNCHANGED aggVars

\* Variant of DivideWhereNonzero: out starts as a copy of x, not as zeros.
DivideWhereNonzero_OutIsX(x, y) ==
    [shape |-> x.shape,
     data  |-> [j \in DOMAIN x.data |->
                  IF y.data[j] # Zero THEN RDiv(x.data[j], y.data[j]) ELSE x.data[j]]]

\* np.divide(x, y, out=np.zeros_like(x), where=y != 0) for arrays of one shape.
DivideWhereNonzero(x, y) ==
    [shape |-> x.shape,
     data  |-> [j \in DOMAIN x.data |->
                  IF y.data[j] # Zero THEN RDiv(x.data[j], y.data[j]) ELSE Zero]]

\* Variant of Subtract: the operands swapped.
Subtract_Swapped(x, y) ==
    [shape |-> x.shape, data |-> [j \in DOMAIN x.data |-> RSub(y.data[j], x.data[j])]]

\* x - y for arrays of one shape.
Subtract(x, y) ==
    [shape |-> x.shape, data |-> [j \in DOMAIN x.data |-> RSub(x.data[j], y.data[j])]]

\* Variant of Compared: the loop over the keys ends at the first key whose
\* shapes differ (break for continue).
Compared_Break(b, sc, things) ==
    {k \in Range(things) :
        /\ k \in DOMAIN b /\ k \in DOMAIN sc /\ b[k].shape = sc[k].shape
        /\ \A m, n \in 1..Len(things) :
              (things[n] = k /\ m < n)
              => ~(/\ things[m] \in DOMAIN b /\ things[m] \in DOMAIN sc
                   /\ b[things[m]].shape # sc[things[m]].shape)}

\* Lines 213-221: the keys compared for one scenario.
Compared(b, sc, things) ==
    {k \in Range(things) :
        k \in DOMAIN b /\ k \in DOMAIN sc /\ b[k].shape = sc[k].shape}

\* Lines 218-221: the keys whose shapes differ.
Mismatched(b, sc, things) ==
    {k \in Range(things) :
        k \in DOMAIN b /\ k \in DOMAIN sc /\ b[k].shape # sc[k].shape}

\* Variant of Compare: the difference is also stored back into the scenario.
Compare_InPlace ==
    /\ pc = "compare"
    /\ scenarios_rel' =
          [s \in 1..Len(scenarios) |->
             [k \in Compared(base, scenarios[s], extended_things) |->
                DivideWhereNonzero(scenarios[s][k], base[k])]]
    /\ scenarios_dif' =
          [s \in 1..Len(scenarios) |->
             [k \in Compared(base, scenarios[s], extended_things) |->
                Subtract(scenarios[s][k], base[k])]]
    /\ scenarios_dif_rel' =
          [s \in 1..Len(scenarios) |->
             [k \in Compared(base, scenarios[s], extended_things) |->
                DivideWhereNonzero(Subtract(scenarios[s][k], base[k]), base[k])]]
    /\ scenarios' =
          [s \in 1..Len(scenarios) |->
             [k \in DOMAIN scenarios[s] |->
                IF k \in Compared(base, scenarios[s], extended_things)
                THEN Subtract(scenarios[s][k], base[k])
                ELSE scenarios[s][k]]]
    /\ warnings' = warnings \cup
          {<<"shape", k>> : k \in UNION {Mismatched(base, scenarios[s], extended_things) :
                                           s \in 1..Len(scenarios)}}
    /\ pc' = "done"
    /\ UNCHANGED <<base, extended_things, entry, run>>
    /\ UNCHANGED aggVars

\* Variant of Compare: the lists are filled from the last scenario to the first.
Compare_Reversed ==
    LET sc(s) == scenarios[Len(scenarios) + 1 - s]
    IN  /\ pc = "compare"
        /\ scenarios_rel' =
              [s \in 1..Len(scenarios) |->
                 [k \in Compared(base, sc(s), extended_things) |->
                    DivideWhereNonzero(sc(s)[k], base[k])]]
        /\ scenarios_dif' =
              [s \in 1..Len(scenarios) |->
                 [k \in Compared(base, sc(s), extended_things) |->
                    Subtract(sc(s)[k], base[k])]]
        /\ scenarios_dif_rel' =
              [s \in 1..Len(scenarios) |->
                 [k \in Compared(base, sc(s), extended_things) |->
                    DivideWhereNonzero(Subtract(sc(s)[k], base[k]), base[k])]]
        /\ warnings' = warnings \cup
              {<<"shape", k>> : k \in UNION {Mismatched(base, scenarios[s], extended_things) :
                                               s \in 1..Len(scenarios)}}
        /\ pc' = "done"
        /\ UNCHANGED <<base, scenarios, extended_things, entry, run>>
        /\ UNCHANGED aggVars

\* Lines 201-240.
Compare ==
    /\ pc = "compare"
    /\ scenarios_rel' =
          [s \in 1..Len(scenarios) |->
             [k \in Compared(base, scenarios[s], extended_things) |->
                DivideWhereNonzero(scenarios[s][k], base[k])]]
    /\ scenarios_dif' =
          [s \in 1..Len(scenarios) |->
             [k \in Compared(base, scenarios[s], extended_things) |->
                Subtract(scenarios[s][k], base[k])]]
    /\ scenarios_dif_rel' =
          [s \in 1..Len(scenarios) |->
             [k \in Compared(base, scenarios[s], extended_things) |->
                DivideWhereNonzero(Subtract(scenarios[s][k], base[k]), base[k])]]
    /\ warnings' = warnings \cup
          {<<"shape", k>> : k \in UNION {Mismatched(base, scenarios[s], extended_things) :
                                           s \in 1..Len(scenarios)}}
    /\ pc' = "done"
    /\ UNCHANGED <<base, scenarios, extended_things, entry, run>>
    /\ UNCHANGED aggVars

\* ---------------------------------------------------------------- pipeline inputs

\* Largest number of scenarios passed in.
MaxScenarios == 2

\* Shapes a dataset may hold under real_output: (time, experiment, country),
\* the same with one more country, and a single axis.
OutputShape == <<Len(time_steps), Len(experiments), Len(country_codes)>>

OutputShapes ==
    {OutputShape,
     <<Len(time_steps), Len(experiments), Len(country_codes) + 1>>,
     <<Len(time_steps)>>}

\* Shapes a dataset may hold under real_sector_output: (time, experiment,
\* country, fine sector), (time, country, fine sector), and the first with a
\* trailing axis of length 1.
SectorShape ==
    <<Len(time_steps), Len(experiments), Len(country_codes), Len(CatPartition.nace62)>>

SectorShapes ==
    {SectorShape,
     <<Len(time_steps), Len(country_codes), Len(CatPartition.nace62)>>,
     Append(SectorShape, 1)}

\* Offset and step of the ramp that fills every array of the baseline: all 0,
\* all 10, and -1, 0, 1, ...
Fills == {<<0, 0>>, <<10, 0>>, <<-1, 1>>}

\* The same for the scenarios: all 11, and -1, 0, 1, ...
ScenarioFills == {<<11, 0>>, <<-1, 1>>}

\* The dataset holding the given variables as ramps.
Dataset(shapeOf, fill) ==
    [k \in DOMAIN shapeOf |-> Ramp(shapeOf[k], fill[1], fill[2])]

\* The regular dataset: both tracked variables in their full shape.
Regular ==
    [k \in Range(thingsWeCareAbout) |-> IF HasSector(k) THEN SectorShape ELSE OutputShape]

\* Which variables a dataset holds, and in which shape: the regular dataset
\* and those that differ from it in one variable (absent, or another shape).
Profiles ==
    {p \in UNION {[ks -> OutputShapes \cup SectorShapes] :
                    ks \in SUBSET Range(thingsWeCareAbout)} :
        /\ \A k \in DOMAIN p :
              p[k] \in (IF HasSector(k) THEN SectorShapes ELSE OutputShapes)
        /\ Cardinality({k \in Range(thingsWeCareAbout) :
                           k \notin DOMAIN p \/ p[k] # Regular[k]}) <= 1}

\* The state at the first call, the datasets as loaded, at most maxN scenarios.
Loaded(maxN) ==
    /\ \E bp \in Profiles, bf \in Fills : base = Dataset(bp, bf)
    /\ \E n \in 0..maxN, sf \in ScenarioFills :
          \E sp \in [1..n -> Profiles] :
             scenarios = [s \in 1..n |-> Dataset(sp[s], sf)]
    /\ extended_things = <<>>
    /\ scenarios_rel = <<>>
    /\ scenarios_dif = <<>>
    /\ scenarios_dif_rel = <<>>
    /\ pc = "means"
    /\ warnings = {}
    /\ entry = [base |-> base, scenarios |-> scenarios]
    /\ run = 1
    /\ inArray = NoArray
    /\ cat = CatPartition
    /\ aggOut = NotCalled
    /\ legacyOut = LegacyNotCalled

Init == Loaded(MaxScenarios)

Next ==
    \/ ComputeMeans
    \/ ExtendThings
    \/ AggregateSectors
    \/ Compare

Spec == Init /\ [][Next]_vars

\* ---------------------------------------------------------------- second call

\* Largest number of scenarios when the call is made twice.
MaxTwiceScenarios == 1

\* calculate_means_and_differences(base, scenarios, ...) once more on the
\* datasets the first call returned: its locals start afresh.
CallAgain ==
    /\ pc = "done"
    /\ run = 1
    /\ run' = 2
    /\ entry' = [base |-> base, scenarios |-> scenarios]
    /\ extended_things' = <<>>
    /\ scenarios_rel' = <<>>
    /\ scenarios_dif' = <<>>
    /\ scenarios_dif_rel' = <<>>
    /\ pc' = "means"
    /\ UNCHANGED <<base, scenarios, warnings>>
    /\ UNCHANGED aggVars

InitTwice == Loaded(MaxTwiceScenarios)

NextTwice ==
    \/ Next
    \/ CallAgain

SpecTwice == InitTwice /\ [][NextTwice]_vars

\* ---------------------------------------------------------------- main

\* Largest number of scenarios main() loads.
MaxMainScenarios == 1

\* Variant of required_vars: the raw names, not the derived ones.
required_vars_Raw == << <<"real", "output">>, <<"real", "sector", "output">> >>

required_vars ==
    << <<"real", "output", "mean">>, <<"real", "sector", "output", "mean", "nace1">> >>

\* missing_vars = [var for var in required_vars if var not in base]
MissingVars(b) == SelectSeq(required_vars, LAMBDA var : var \notin DOMAIN b)

\* main(), lines 198-207, after calculate_means_and_differences returned: the
\* configuration is updated and the missing required variables are reported.
CheckRequired ==
    /\ pc = "done"
    /\ warnings' = warnings \cup {<<"missing", var>> : var \in Range(MissingVars(base))}
    /\ pc' = "checked"
    /\ UNCHANGED <<base, scenarios, extended_things, scenarios_rel, scenarios_dif,
                   scenarios_dif_rel, entry, run>>
    /\ UNCHANGED aggVars

\* main(), lines 209-224: the map is loaded (or reported as not found) and
\* create_time_series_plots is called.
PlotTimeSeries ==
    /\ pc = "checked"
    /\ pc' = "plotting"
    /\ UNCHANGED <<base, scenarios, extended_things, scenarios_rel, scenarios_dif,
                   scenarios_dif_rel, warnings, entry, run>>
    /\ UNCHANGED aggVars

\* main() raises before the call when no scenario was loaded.
InitMain == Loaded(MaxMainScenarios) /\ Len(scenarios) >= 1

NextMain ==
    \/ Next
    \/ CheckRequired
    \/ PlotTimeSeries

SpecMain == InitMain /\ [][NextMain]_vars

\* ---------------------------------------------------------------- properties of the direct call

\* Sum of arr along one axis, the other positions taken from j.
SumAxis(arr, j, axis) ==
    SumFn([i \in 0..(arr.shape[axis + 1] - 1) |-> arr.data[[j EXCEPT ![axis + 1] = i]]])

\* Fine positions whose code starts with coarse code number s (0-based).
FinePositions(c, s) ==
    {i \in 0..(Len(c.nace62) - 1) : StartsWith(c.nace62[i + 1], c.nace1[s + 1])}

\* Sum of arr over the fine positions of coarse code s along axis, at j.
GroupSum(arr, j, axis, c, s) ==
    SumFn([i \in FinePositions(c, s) |-> arr.data[[j EXCEPT ![axis + 1] = i]]])

AxesOfLen(shape, n) == {a \in 0..(Len(shape) - 1) : shape[a + 1] = n}

FirstAxis(shape, n) ==
    CHOOSE a \in AxesOfLen(shape, n) : \A b \in AxesOfLen(shape, n) : a <= b

Called == aggOut.exc # "not called"

\* (time, country, fine sector), the country count unlike the other counts.
Canonical3 ==
    /\ Len(inArray.shape) = 3
    /\ inArray.shape[1] = Len(time_steps)
    /\ inArray.shape[3] = Len(cat.nace62)
    /\ inArray.shape[2] \notin {Len(time_steps), Len(cat.nace62)}

\* (time, experiment, country, fine sector), the country count unlike the others.
Canonical4 ==
    /\ Len(inArray.shape) = 4
    /\ inArray.shape[1] = Len(time_steps)
    /\ inArray.shape[2] = Len(experiments)
    /\ inArray.shape[4] = Len(cat.nace62)
    /\ inArray.shape[3] \notin {Len(time_steps), Len(experiments), Len(cat.nace62)}

\* C1: partition sum.  For a 3-axis or 4-axis input in the canonical layout and
\* a catalogue in which every fine code has exactly one coarse prefix, the
\* returned array summed over the coarse sectors equals the input summed over
\* the fine sectors, at every position of the other axes.
C1_PartitionSum ==
    (/\ aggOut.exc = "none"
     /\ Canonical3 \/ Canonical4
     /\ WellFormed(cat))
    => LET last == Len(inArray.shape) - 1
       IN  \A j \in Indices(aggOut.arr.shape) :
              j[last + 1] = 0
              => SumAxis(aggOut.arr, j, last) = SumAxis(inArray, j, last)

\* C2: for a 4-axis input (time, experiment, country, fine sector) the call
\* returns, at every (t, e, c, s) and for every country c, the sum of the input
\* over the fine positions whose code starts with coarse code s.
C2_Elementwise4 ==
    (Called /\ Canonical4)
    => /\ aggOut.exc = "none"
       /\ aggOut.arr.shape = [inArray.shape EXCEPT ![4] = Len(cat.nace1)]
       /\ \A j \in Indices(aggOut.arr.shape) :
             aggOut.arr.data[j] = GroupSum(inArray, j, 3, cat, j[4])

\* The sector and the time axis of a 3-axis input are found by length, at
\* distinct positions.
FoundApart3 ==
    /\ Len(inArray.shape) = 3
    /\ AxesOfLen(inArray.shape, Len(cat.nace62)) # {}
    /\ AxesOfLen(inArray.shape, Len(time_steps)) # {}
    /\ FirstAxis(inArray.shape, Len(cat.nace62)) # FirstAxis(inArray.shape, Len(time_steps))

\* C3: for a 3-axis input whose sector and time axes are found by length at
\* distinct positions, the call returns, at every index, the sum of the input
\* over the fine positions (along the sector axis) whose code starts with the
\* coarse code of that index; a coarse code no fine code matches yields 0.
C3_Elementwise3 ==
    (Called /\ FoundApart3)
    => LET sd == FirstAxis(inArray.shape, Len(cat.nace62))
       IN  /\ aggOut.exc = "none"
           /\ aggOut.arr.shape = [inArray.shape EXCEPT ![sd + 1] = Len(cat.nace1)]
           /\ \A j \in Indices(aggOut.arr.shape) :
                 /\ aggOut.arr.data[j] = GroupSum(inArray, j, sd, cat, j[sd + 1])
                 /\ FinePositions(cat, j[sd + 1]) = {} => aggOut.arr.data[j] = Zero

\* C3 witness: such a call on an array with several countries returned sums
\* other than 0 and 1 and a 0 for a coarse code without fine codes.
C3_Witness ==
    /\ Called
    /\ FoundApart3
    /\ aggOut.exc = "none"
    /\ \E a \in 0..2 : /\ a \notin {FirstAxis(inArray.shape, Len(cat.nace62)),
                                    FirstAxis(inArray.shape, Len(time_steps))}
                       /\ inArray.shape[a + 1] >= 2
    /\ \E j \in Indices(aggOut.arr.shape) : aggOut.arr.data[j][1] > 1
    /\ \E s \in 0..(Len(cat.nace1) - 1) : FinePositions(cat, s) = {}

\* C4: for a 4-axis shape whose sector, time and experiment axes are three
\* distinct indices, the country axis is the one index of 0..3 left over.
C4_CountryAxis4 ==
    (/\ Called
     /\ Len(inArray.shape) = 4
     /\ Cardinality({aggOut.dims["sector"], aggOut.dims["time"], aggOut.dims["exp"]}) = 3)
    => /\ PyInRange(aggOut.dims["country"], 4)
       /\ PyWrap(aggOut.dims["country"], 4)
             \notin {aggOut.dims["sector"], aggOut.dims["time"], aggOut.dims["exp"]}

\* C5: for every 3-axis shape the country axis is the one axis of 0..2 that
\* remains after the sector and the time axis have been assigned.
C5_CountryAxis3 ==
    (Called /\ Len(inArray.shape) = 3)
    => /\ PyInRange(aggOut.dims["country"], 3)
       /\ PyWrap(aggOut.dims["country"], 3)
             \notin {aggOut.dims["sector"], aggOut.dims["time"]}

\* C6: the output starts from zero: every element of the returned array that
\* the summation loops did not assign holds 0.
C6_ZeroInit ==
    aggOut.exc = "none"
    => \A j \in Indices(aggOut.arr.shape) \ aggOut.written : aggOut.arr.data[j] = Zero

\* ---------------------------------------------------------------- properties of the pipeline

\* x * y
RTimes(x, y) == Rat(x[1] * y[1], x[2] * y[2])

Done == pc = "done"

\* C7: zero-guarded division.  In every comparison output, at every index where
\* the baseline value is 0, relative and relativeDiff are 0, whatever the
\* scenario value there.
C7_ZeroGuard ==
    Done
    => \A s \in 1..Len(scenarios) :
          /\ DOMAIN scenarios_dif_rel[s] = DOMAIN scenarios_rel[s]
          /\ \A k \in DOMAIN scenarios_rel[s] :
                \A j \in DOMAIN base[k].data :
                   base[k].data[j] = Zero
                   => /\ scenarios_rel[s][k].data[j] = Zero
                      /\ scenarios_dif_rel[s][k].data[j] = Zero

\* C7 witness: outputs exist at indices where the baseline is 0 and the
\* scenario value is negative, zero and positive.
C7_Witness ==
    /\ Done
    /\ \E s \in 1..Len(scenarios) : \E k \in DOMAIN scenarios_rel[s] :
          /\ \E j \in DOMAIN base[k].data :
                base[k].data[j] = Zero /\ scenarios[s][k].data[j][1] < 0
          /\ \E j \in DOMAIN base[k].data :
                base[k].data[j] = Zero /\ scenarios[s][k].data[j][1] = 0
          /\ \E j \in DOMAIN base[k].data :
                base[k].data[j] = Zero /\ scenarios[s][k].data[j][1] > 0

\* C8: for every compared variable, absoluteDiff + base = scenario at every
\* index, and where base is nonzero relative * base = scenario and
\* relativeDiff * base = scenario - base.
C8_Differences ==
    Done
    => \A s \in 1..Len(scenarios) :
          /\ DOMAIN scenarios_dif[s] = DOMAIN scenarios_rel[s]
          /\ DOMAIN scenarios_dif_rel[s] = DOMAIN scenarios_rel[s]
          /\ \A k \in DOMAIN scenarios_rel[s] :
                \A j \in DOMAIN base[k].data :
                   LET b == base[k].data[j]
                       v == scenarios[s][k].data[j]
                   IN  /\ RAdd(scenarios_dif[s][k].data[j], b) = v
                       /\ b # Zero
                          => /\ RTimes(scenarios_rel[s][k].data[j], b) = v
                             /\ RTimes(scenarios_dif_rel[s][k].data[j], b) = RSub(v, b)

\* C8 witness: a compared variable with an index where base is 0 and the
\* difference is not, and an index where the quotient is not a whole number.
C8_Witness ==
    /\ Done
    /\ \E s \in 1..Len(scenarios) : \E k \in DOMAIN scenarios_rel[s] :
          /\ \E j \in DOMAIN base[k].data :
                base[k].data[j] = Zero /\ scenarios_dif[s][k].data[j] # Zero
          /\ \E j \in DOMAIN base[k].data :
                /\ base[k].data[j] # Zero
                /\ scenarios_rel[s][k].data[j][2] # 1
                /\ scenarios_dif_rel[s][k].data[j][1] < 0

BothHold(s, k) == k \in DOMAIN base /\ k \in DOMAIN scenarios[s]

\* C9: shape mismatch is not fatal.  The comparison step always completes; a
\* key whose shapes differ between base and scenario s is in none of the three
\* maps of s, and every other tracked key held by both with equal shapes is in
\* all three.
C9_ShapeMismatch ==
    [][pc = "compare"
       => /\ pc' = "done"
          /\ Len(scenarios_rel') = Len(scenarios)
          /\ \A s \in 1..Len(scenarios) : \A k \in Range(extended_things) :
                BothHold(s, k)
                => IF base[k].shape # scenarios[s][k].shape
                   THEN /\ k \notin DOMAIN scenarios_rel'[s]
                        /\ k \notin DOMAIN scenarios_dif'[s]
                        /\ k \notin DOMAIN scenarios_dif_rel'[s]
                   ELSE /\ k \in DOMAIN scenarios_rel'[s]
                        /\ k \in DOMAIN scenarios_dif'[s]
                        /\ k \in DOMAIN scenarios_dif_rel'[s]]_vars

\* C9 witness: the comparison completed for a scenario with a mismatched key
\* listed before a key that was compared.
C9_Witness ==
    /\ Done
    /\ \E s \in 1..Len(scenarios) : \E m, n \in 1..Len(extended_things) :
          /\ m < n
          /\ BothHold(s, extended_things[m])
          /\ base[extended_things[m]].shape # scenarios[s][extended_things[m]].shape
          /\ extended_things[n] \in DOMAIN scenarios_rel[s]

\* C10: after the call every dataset holds <name>_mean, the mean over axis 1 of
\* its own array, for every tracked variable it holds with at least 2 axes,
\* whatever the other datasets hold.
C10_MeansEverywhere ==
    Done
    => \A d \in {base} \cup Range(scenarios) : \A i \in 1..Len(thingsWeCareAbout) :
          LET k == thingsWeCareAbout[i]
          IN  (k \in DOMAIN d /\ ndim(d[k]) >= 2)
              => /\ KeyMean(k) \in DOMAIN d
                 /\ d[KeyMean(k)] = MeanAxis1(d[k])

\* C11: the mean step never raises for data it is meant to skip: a tracked
\* variable that a dataset lacks, or holds with fewer than 2 axes, is skipped
\* for that dataset, and the call goes on to the remaining steps.
C11_MeansNeverRaise == pc # "raised"

\* The last word of a key.
Suffix(key) == key[Len(key)]

\* Every key of dataset before is a key of dataset after, with the same array.
Kept(before, after) ==
    \A k \in DOMAIN before : k \in DOMAIN after /\ after[k] = before[k]

\* The keys of after that before lacks end in _mean or _nace1.
OnlyDerivedAdded(before, after) ==
    \A k \in DOMAIN after \ DOMAIN before : Suffix(k) \in {"mean", "nace1"}

SameMeans(before, after) ==
    \A k \in DOMAIN before :
        Suffix(k) = "mean" => k \in DOMAIN after /\ after[k] = before[k]

SameOthers(before, after) ==
    \A k \in DOMAIN before :
        Suffix(k) # "mean" => k \in DOMAIN after /\ after[k] = before[k]

\* C13: a second call on the datasets the first call processed leaves every
\* _mean array as the first call produced it and removes or alters no other key.
C13_SecondCall ==
    (pc \in {"done", "raised"} /\ run = 2)
    => /\ SameMeans(entry.base, base)
       /\ SameOthers(entry.base, base)
       /\ \A s \in 1..Len(scenarios) :
             /\ SameMeans(entry.scenarios[s], scenarios[s])
             /\ SameOthers(entry.scenarios[s], scenarios[s])

\* C13 witness: the second call returned on datasets that held, from the first
\* call, a _mean array with a value that is not a whole number and a _nace1 array.
C13_Witness ==
    /\ Done
    /\ run = 2
    /\ \E d \in {entry.base} \cup Range(entry.scenarios) :
          /\ \E k \in DOMAIN d :
                /\ Suffix(k) = "mean"
                /\ \E j \in DOMAIN d[k].data : d[k].data[j][2] # 1
          /\ \E k \in DOMAIN d : Suffix(k) = "nace1"

\* The aggregation of key succeeds on every dataset that holds it.
AggregatesEverywhere(key) ==
    \A d \in {base} \cup Range(scenarios) :
        key \in DOMAIN d
        => aggregateSectorNace62ToNace1(d[key], cat.nace1, cat.nace62).exc = "none"

\* C14: a failure of the aggregation for one variable is caught.  The
\* aggregation step always goes on to the comparisons, which return; and every
\* sector variable of the baseline whose own aggregation succeeds is aggregated
\* in every dataset holding it, whatever failed for the variables before it.
C14_FailureCaught ==
    [][/\ pc = "aggregate"
          => /\ pc' = "compare"
             /\ \A k \in Range(extended_things) :
                   (HasSector(k) /\ k \in DOMAIN base /\ AggregatesEverywhere(k))
                   => /\ KeyNace1(k) \in DOMAIN base'
                      /\ KeyNace1(k) \in Range(extended_things')
                      /\ \A s \in 1..Len(scenarios) :
                            k \in DOMAIN scenarios[s]
                            => KeyNace1(k) \in DOMAIN scenarios'[s]
       /\ pc = "compare"
          => /\ pc' = "done"
             /\ Len(scenarios_rel') = Len(scenarios)]_vars

\* C14 witness: the call returned after the aggregation failed for one variable
\* and succeeded for a later one, whose aggregate was compared.
C14_Witness ==
    /\ Done
    /\ \E m, n \in 1..Len(extended_things) :
          /\ m < n
          /\ <<"aggregate", extended_things[m]>> \in warnings
          /\ HasSector(extended_things[n])
          /\ Suffix(extended_things[n]) # "nace1"
          /\ KeyNace1(extended_things[n]) \in DOMAIN base
          /\ \E s \in 1..Len(scenarios) :
                KeyNace1(extended_things[n]) \in DOMAIN scenarios_rel[s]

\* C15: the call returns three lists as long as the list of scenarios, entry i
\* made from scenario i and the baseline: its keys are the tracked keys held by
\* both with equal shapes, its arrays have the shape of scenario i's, and
\* absoluteDiff plus baseline gives scenario i.  With no scenario the call
\* does not raise and the three lists are empty.
C15_IndexAligned ==
    /\ Len(entry.scenarios) = 0 => pc # "raised"
    /\ Done
       => /\ Len(scenarios_rel) = Len(scenarios)
          /\ Len(scenarios_dif) = Len(scenarios)
          /\ Len(scenarios_dif_rel) = Len(scenarios)
          /\ \A i \in 1..Len(scenarios) :
                LET keys == {k \in Range(extended_things) :
                                /\ BothHold(i, k)
                                /\ base[k].shape = scenarios[i][k].shape}
                IN  /\ DOMAIN scenarios_rel[i] = keys
                    /\ DOMAIN scenarios_dif[i] = keys
                    /\ DOMAIN scenarios_dif_rel[i] = keys
                    /\ \A k \in keys :
                          /\ scenarios_rel[i][k].shape = scenarios[i][k].shape
                          /\ scenarios_dif_rel[i][k].shape = scenarios[i][k].shape
                          /\ scenarios_dif[i][k].shape = scenarios[i][k].shape
                          /\ \A j \in DOMAIN scenarios_dif[i][k].data :
                                RAdd(scenarios_dif[i][k].data[j], base[k].data[j])
                                   = scenarios[i][k].data[j]

\* C15 witness: the call returned for two scenarios that do not hold the same
\* variables in the same shapes, each with keys compared.
C15_Witness ==
    /\ Done
    /\ Len(scenarios) = 2
    /\ scenarios_rel[1] # <<>>
    /\ scenarios_rel[2] # <<>>
    /\ DOMAIN scenarios_rel[1] # DOMAIN scenarios_rel[2]

\* C15 witness of the empty case: the call returned for no scenario.
C15_WitnessEmpty == Done /\ Len(scenarios) = 0 /\ DOMAIN base # {}

\* Every element of arr is x.
AllAre(arr, x) == \A j \in DOMAIN arr.data : arr.data[j] = x

\* Baseline and the one scenario hold key with 3 axes of the same lengths, all
\* b (b # 0) in the baseline and all v in the scenario.
ConstantCase(key, b, v) ==
    /\ Len(entry.scenarios) = 1
    /\ key \in DOMAIN entry.base
    /\ key \in DOMAIN entry.scenarios[1]
    /\ Len(entry.base[key].shape) = 3
    /\ entry.scenarios[1][key].shape = entry.base[key].shape
    /\ b # Zero
    /\ AllAre(entry.base[key], b)
    /\ AllAre(entry.scenarios[1][key], v)

\* The values at the first position of the two arrays of key.
FirstOfBase(key) == entry.base[key].data[<<0, 0, 0>>]

FirstOfScenario(key) == entry.scenarios[1][key].data[<<0, 0, 0>>]

\* C16: end to end on constant data.  When the baseline and one scenario hold
\* a tracked variable of shape (T, E, C), all b # 0 in the baseline and all v
\* in the scenario, the call stores <name>_mean of shape (T, C), all b in the
\* baseline and all v in the scenario, and for <name>_mean relative is v / b,
\* absoluteDiff v - b and relativeDiff (v - b) / b everywhere.
C16_EndToEnd ==
    Done
    => \A n \in 1..Len(thingsWeCareAbout) :
          LET key == thingsWeCareAbout[n]
              km == KeyMean(key)
          IN  (/\ key \in DOMAIN entry.base
               /\ Len(entry.scenarios) = 1
               /\ key \in DOMAIN entry.scenarios[1]
               /\ Len(entry.base[key].shape) = 3
               /\ ConstantCase(key, FirstOfBase(key), FirstOfScenario(key)))
              => LET b == FirstOfBase(key)
                     v == FirstOfScenario(key)
                     shape == entry.base[key].shape
                 IN  /\ km \in DOMAIN base
                     /\ km \in DOMAIN scenarios[1]
                     /\ base[km].shape = <<shape[1], shape[3]>>
                     /\ scenarios[1][km].shape = <<shape[1], shape[3]>>
                     /\ AllAre(base[km], b)
                     /\ AllAre(scenarios[1][km], v)
                     /\ km \in DOMAIN scenarios_rel[1]
                     /\ km \in DOMAIN scenarios_dif[1]
                     /\ km \in DOMAIN scenarios_dif_rel[1]
                     /\ scenarios_rel[1][km].shape = <<shape[1], shape[3]>>
                     /\ AllAre(scenarios_rel[1][km], RDiv(v, b))
                     /\ AllAre(scenarios_dif[1][km], RSub(v, b))
                     /\ AllAre(scenarios_dif_rel[1][km], RDiv(RSub(v, b), b))

\* C16 witness: the spec's case scaled by 10: real_output of shape (time,
\* experiment, country), all 10 in the baseline and all 11 in the scenario,
\* gave 1.1, 1 and 0.1.
C16_Witness ==
    /\ Done
    /\ ConstantCase(<<"real", "output">>, R(10), R(11))
    /\ entry.base[<<"real", "output">>].shape = OutputShape
    /\ AllAre(scenarios_rel[1][<<"real", "output", "mean">>], <<11, 10>>)
    /\ AllAre(scenarios_dif[1][<<"real", "output", "mean">>], R(1))
    /\ AllAre(scenarios_dif_rel[1][<<"real", "output", "mean">>], <<1, 10>>)

\* The datasets after the call.
Datasets == {base} \cup Range(scenarios)

\* (time, experiment, country, fine sector) with the lengths of the catalogue.
CanonicalRaw(arr) == arr.shape = SectorShape

\* C17: suffix composition.  Whenever a dataset holds <name>_mean_nace1, it
\* holds <name>_mean, and the array is the aggregation of that dataset's
\* <name>_mean: for a raw array (time, experiment, country, fine sector), its
\* element (t, c, s) is the sum over the fine codes of coarse code s of the
\* mean over the experiments.  No key ends in _nace1_nace1.
C17_Composition ==
    /\ \A d \in Datasets : \A n \in 1..Len(thingsWeCareAbout) :
          LET key == thingsWeCareAbout[n]
              km == KeyMean(key)
              kmn == KeyNace1(KeyMean(key))
          IN  kmn \in DOMAIN d
              => /\ km \in DOMAIN d
                 /\ key \in DOMAIN d
                 /\ d[kmn] = aggregateSectorNace62ToNace1(d[km], cat.nace1, cat.nace62).arr
                 /\ CanonicalRaw(d[key])
                    => \A j \in Indices(<<d[key].shape[1], d[key].shape[3],
                                          Len(cat.nace1)>>) :
                          d[kmn].data[j] =
                             SumFn([f \in FinePositions(cat, j[3]) |->
                                      RDiv(SumAxis(d[key], <<j[1], 0, j[2], f>>, 1),
                                           R(d[key].shape[2]))])
    /\ \A k \in Range(extended_things) \cup UNION {DOMAIN d : d \in Datasets} :
          ~(Len(k) >= 2 /\ k[Len(k)] = "nace1" /\ k[Len(k) - 1] = "nace1")

\* C17 witness: the call returned with <name>_mean_nace1 and <name>_nace1 in
\* the baseline and in a scenario, the first with a value above 1, and
\* compared.
C17_Witness ==
    /\ Done
    /\ \E n \in 1..Len(thingsWeCareAbout) :
          LET key == thingsWeCareAbout[n]
              kmn == KeyNace1(KeyMean(key))
          IN  /\ kmn \in DOMAIN base
              /\ KeyNace1(key) \in DOMAIN base
              /\ CanonicalRaw(base[key])
              /\ \E j \in DOMAIN base[kmn].data : base[kmn].data[j][1] > 1
              /\ \E s \in 1..Len(scenarios) :
                    /\ kmn \in DOMAIN scenarios[s]
                    /\ CanonicalRaw(scenarios[s][key])
                    /\ kmn \in DOMAIN scenarios_rel[s]

\* ---------------------------------------------------------------- more properties of the direct call

\* The axis the sector codes are summed along: the first axis as long as the
\* fine list, or the last axis when there is none.
ExpectedSectorAxis ==
    IF AxesOfLen(inArray.shape, Len(cat.nace62)) # {}
    THEN FirstAxis(inArray.shape, Len(cat.nace62))
    ELSE Len(inArray.shape) - 1

\* C18: the returned array has the rank and the axis lengths of the input,
\* except that the sector axis is as long as the coarse list; the call leaves
\* the input array as it was.
C18_OutputShape ==
    [][aggOut'.exc = "none"
       => /\ inArray' = inArray
          /\ Len(aggOut'.arr.shape) = Len(inArray.shape)
          /\ \A a \in 0..(Len(inArray.shape) - 1) :
                aggOut'.arr.shape[a + 1] =
                   IF a = ExpectedSectorAxis THEN Len(cat.nace1)
                   ELSE inArray.shape[a + 1]
          /\ DOMAIN aggOut'.arr.data = Indices(aggOut'.arr.shape)]_vars

\* C18 witness: a call returned for a 4-axis input and a catalogue with fewer
\* coarse codes than fine codes.
C18_Witness ==
    /\ aggOut.exc = "none"
    /\ Len(inArray.shape) = 4
    /\ Len(cat.nace1) < Len(cat.nace62)
    /\ aggOut.arr.shape # inArray.shape

\* Lengths searched for: every axis length of the inputs and one beyond.
Targets == 0..(MaxAxisLen + 1)

\* C19: find_dimension_index(shape, target) is the smallest axis index whose
\* length is target, and is -1 exactly when no axis has that length; so the
\* sector axis of a call that printed no warning is the first axis as long as
\* the fine list.
C19_FirstMatch ==
    /\ \A target \in Targets :
          LET found == find_dimension_index(inArray.shape, target)
              axes == AxesOfLen(inArray.shape, target)
          IN  /\ found = -1 <=> axes = {}
              /\ found # -1
                 => /\ found \in axes
                    /\ \A a \in axes : found <= a
    /\ (Called /\ ~aggOut.warned)
       => /\ AxesOfLen(inArray.shape, Len(cat.nace62)) # {}
          /\ aggOut.dims["sector"] = FirstAxis(inArray.shape, Len(cat.nace62))

\* C19 witness: a call found the sector axis by length in a shape with two
\* axes of that length, the first of them not axis 0.
C19_Witness ==
    /\ Called
    /\ ~aggOut.warned
    /\ Cardinality(AxesOfLen(inArray.shape, Len(cat.nace62))) >= 2
    /\ aggOut.dims["sector"] > 0
    /\ find_dimension_index(inArray.shape, MaxAxisLen + 1) = -1

\* C20: when no axis of a 3-axis or 4-axis input is as long as the fine list,
\* the call takes axis 2 (3 axes) or axis 3 (4 axes) as the sector axis, prints
\* a warning and returns an array.
C20_Fallback ==
    (/\ Called
     /\ Len(inArray.shape) \in {3, 4}
     /\ AxesOfLen(inArray.shape, Len(cat.nace62)) = {})
    => /\ aggOut.warned
       /\ aggOut.exc = "none"
       /\ aggOut.dims["sector"] = Len(inArray.shape) - 1

\* C21: a call on an array whose rank is neither 3 nor 4 ends in a raised
\* error, never in a returned array, whether or not an axis is as long as the
\* fine list.
C21_RankIsFatal ==
    (Called /\ Len(inArray.shape) \notin {3, 4}) => aggOut.exc # "none"

\* The index lists get_sector_mappings returns for the coarse codes of c.
Mappings(c) ==
    [s \in 1..Len(c.nace1) |-> get_sector_mappings(s - 1, c.nace1[s], c.nace62)]

ConstantsMappings == Mappings(CatConstants)

\* C22: with the catalogue of constants.py the prefix rule is a total
\* partition: the 19 index lists of get_sector_mappings are pairwise disjoint
\* and together hold every fine position 0..61, each once.
C22_CataloguePartition ==
    cat = CatConstants
    => LET m == ConstantsMappings
       IN  /\ Len(cat.nace1) = 19
           /\ Len(cat.nace62) = 62
           /\ \A s, t \in 1..19 : s # t => Range(m[s]) \cap Range(m[t]) = {}
           /\ UNION {Range(m[s]) : s \in 1..19} = 0..61
           /\ \A s \in 1..19 : Cardinality(Range(m[s])) = Len(m[s])

\* C22 witness: a call was made with the catalogue of constants.py, in which a
\* coarse code has one fine code and another has nineteen.
C22_Witness ==
    /\ Called
    /\ cat = CatConstants
    /\ \E s, t \in 1..Len(cat.nace1) :
          Len(ConstantsMappings[s]) = 1 /\ Len(ConstantsMappings[t]) = 19

\* ---------------------------------------------------------------- properties of main

C24_ScenarioAlone ==
    Done
    => \A s \in 1..Len(scenarios) : \A k \in DOMAIN scenarios[s] :
          (/\ k \in Range(extended_things)
           /\ HasSector(k)
           /\ Suffix(k) # "nace1"
           /\ aggregateSectorNace62ToNace1(scenarios[s][k], cat.nace1, cat.nace62).exc
                 = "none")
          => KeyNace1(k) \in DOMAIN scenarios[s]

\* The axis of the given length that a call resolves: the first one of that
\* length, or the default when there is none.
ExpectedAxis(n, default) ==
    IF AxesOfLen(inArray.shape, n) # {} THEN FirstAxis(inArray.shape, n) ELSE default

\* C25: in the 4-axis case the time axis is the first axis as long as the list
\* of time steps and otherwise axis 0, the experiment axis the first axis as
\* long as the list of experiments and otherwise axis 1; the sector axis is
\* resolved first, and neither choice avoids it.
C25_TimeAndExperiment ==
    (Called /\ Len(inArray.shape) = 4)
    => /\ aggOut.dims["sector"] = ExpectedSectorAxis
       /\ aggOut.dims["time"] = ExpectedAxis(Len(time_steps), 0)
       /\ aggOut.dims["exp"] = ExpectedAxis(Len(experiments), 1)

\* C25 witness: a 4-axis call took the experiment axis from the default, on
\* the sector axis, and found the time axis by length at another axis than 0.
C25_Witness ==
    /\ Called
    /\ Len(inArray.shape) = 4
    /\ AxesOfLen(inArray.shape, Len(experiments)) = {}
    /\ aggOut.dims["exp"] = 1
    /\ aggOut.dims["sector"] = 1
    /\ AxesOfLen(inArray.shape, Len(time_steps)) # {}
    /\ aggOut.dims["time"] > 1

\* Some comparison map has an entry.
ComparisonWritten(rel, dif, dif_rel) ==
    \E s \in 1..Len(rel) : rel[s] # <<>> \/ dif[s] # <<>> \/ dif_rel[s] # <<>>

\* C26: the phases of a call run in order.  A step that changes a dataset
\* starts and ends with no comparison entry written, a step that writes
\* comparison entries changes no dataset, and once an entry is written the
\* datasets stay as they are to the end of the call.
C26_PhasesInOrder ==
    [][/\ (base' # base \/ scenarios' # scenarios)
          => /\ ~ComparisonWritten(scenarios_rel, scenarios_dif, scenarios_dif_rel)
             /\ ~ComparisonWritten(scenarios_rel', scenarios_dif', scenarios_dif_rel')
       /\ (<<scenarios_rel', scenarios_dif', scenarios_dif_rel'>>
              # <<scenarios_rel, scenarios_dif, scenarios_dif_rel>>)
          => /\ base' = base
             /\ scenarios' = scenarios
             /\ pc = "compare"
       /\ pc \in {"means", "extend", "aggregate"}
          => ~ComparisonWritten(scenarios_rel, scenarios_dif, scenarios_dif_rel)]_vars

\* C26 witness: the call returned with derived keys of both kinds added to a
\* scenario and comparison entries written for it.
C26_Witness ==
    /\ Done
    /\ \E s \in 1..Len(scenarios) :
          /\ \E k, m \in DOMAIN scenarios[s] \ DOMAIN entry.scenarios[s] :
                Suffix(k) = "mean" /\ Suffix(m) = "nace1"
          /\ scenarios_rel[s] # <<>>
          /\ scenarios_dif[s] # scenarios_rel[s]

\* The final tracked set: the tracked names and the derived names the call
\* added to the baseline.
FinalTracked ==
    Range(thingsWeCareAbout)
       \cup {k \in DOMAIN base \ DOMAIN entry.base : Suffix(k) \in {"mean", "nace1"}}

\* C27: for each scenario s the three output maps have the same key set, and
\* a name is in it exactly when it is in the final tracked set, held by the
\* baseline and by scenario s, with equal shapes.
C27_KeySets ==
    Done
    => /\ Range(extended_things) = FinalTracked
       /\ \A s \in 1..Len(scenarios) :
             /\ DOMAIN scenarios_dif[s] = DOMAIN scenarios_rel[s]
             /\ DOMAIN scenarios_dif_rel[s] = DOMAIN scenarios_rel[s]
             /\ \A name \in FinalTracked \cup DOMAIN base \cup DOMAIN scenarios[s]
                              \cup DOMAIN scenarios_rel[s] :
                   name \in DOMAIN scenarios_rel[s]
                   <=> /\ name \in FinalTracked
                       /\ name \in DOMAIN base
                       /\ name \in DOMAIN scenarios[s]
                       /\ base[name].shape = scenarios[s][name].shape

\* C27 witness: the call returned for a scenario whose maps hold a tracked, a
\* _mean and a _nace1 name, while a name that both datasets hold in different
\* shapes and a name the scenario lacks are left out.
C27_Witness ==
    /\ Done
    /\ \E s \in 1..Len(scenarios) :
          /\ \E k, m, n \in DOMAIN scenarios_rel[s] :
                /\ k \in Range(thingsWeCareAbout)
                /\ Suffix(m) = "mean"
                /\ Suffix(n) = "nace1"
          /\ \E k \in FinalTracked :
                /\ BothHold(s, k)
                /\ k \notin DOMAIN scenarios_rel[s]
    /\ \E s \in 1..Len(scenarios) : \E k \in FinalTracked :
          k \in DOMAIN base /\ k \notin DOMAIN scenarios[s]

\* C29: experiment averaging and sector aggregation commute.  For every sector
\* variable X held in the layout (time, experiment, country, fine sector), the
\* mean over the experiment axis of X_nace1 equals X_mean_nace1 at every
\* (time, country, coarse sector).
C29_Commute ==
    Done
    => \A d \in Datasets : \A n \in 1..Len(thingsWeCareAbout) :
          LET key == thingsWeCareAbout[n]
              kn  == KeyNace1(key)
              kmn == KeyNace1(KeyMean(key))
          IN  (/\ key \in DOMAIN d
               /\ HasSector(key)
               /\ CanonicalRaw(d[key])
               /\ kn \in DOMAIN d
               /\ kmn \in DOMAIN d)
              => \A j \in Indices(d[kmn].shape) :
                    RDiv(SumAxis(d[kn], <<j[1], 0, j[2], j[3]>>, 1), R(d[kn].shape[2]))
                       = d[kmn].data[j]

\* ---------------------------------------------------------------- more properties of the direct call

\* The axis locals of a call, in the order they are assigned.
AssignedAxes ==
    IF Len(inArray.shape) = 4
    THEN <<aggOut.dims["sector"], aggOut.dims["time"], aggOut.dims["exp"],
           aggOut.dims["country"]>>
    ELSE <<aggOut.dims["sector"], aggOut.dims["time"], aggOut.dims["country"]>>

\* C28: for every 3-axis and 4-axis shape the axis indices assigned to sector,
\* time, experiment (4 axes only) and country lie in 0..rank-1 and are
\* pairwise distinct, also when an axis comes from a fallback.
C28_AxesDistinct ==
    (Called /\ Len(inArray.shape) \in {3, 4})
    => /\ \A n \in 1..Len(AssignedAxes) :
             AssignedAxes[n] \in 0..(Len(inArray.shape) - 1)
       /\ \A n, m \in 1..Len(AssignedAxes) :
             n # m => AssignedAxes[n] # AssignedAxes[m]

LegacyCalled == legacyOut.exc # "not called"

\* C30: the two implementations agree.  For every input in the layout (time,
\* country, fine sector) or (time, experiment, country, fine sector), the
\* function of data_processing/aggregation.py returns an array equal, element
\* for element, to the one the function of the legacy script returns.
C30_SameAsLegacy ==
    (Called /\ LegacyCalled /\ (Canonical3 \/ Canonical4))
    => /\ aggOut.exc = "none"
       /\ legacyOut.exc = "none"
       /\ aggOut.arr = legacyOut.arr

====
